---------------------------- MODULE Spec2Model ----------------------------
(***************************************************************************)
(* A model of scripts/extract_commits.py: the reconstruction of a commit   *)
(* record from the text of `git show --raw --patch --unified=0`            *)
(* (parse_file_change, analyze_diff, find_file_change_by_path,             *)
(* get_commit_details) and the extraction pipeline (process_repository,    *)
(* writer_process, main).                                                  *)
(*                                                                         *)
(* Text lines are TLA+ strings; the Python string methods and the regular  *)
(* expression of parse_file_change are operators on them.  Python's None   *)
(* is NonePath where a str is expected and None where a dict is expected   *)
(* (TLC compares values of one kind only).  A dict object is a reference   *)
(* into `heap`, because the code relies on two keys sharing one object.    *)
(***************************************************************************)
EXTENDS Integers, Sequences, FiniteSets, TLC

VARIABLES
    \* analyze_diff on one captured section
    section,            \* the marker line and the lines that follow it
    diff_lines,         \* current_diff_lines handed to analyze_diff
    file_change,        \* the dict analyze_diff fills, None before the parse
    an_pc,
    \* get_commit_details
    git_out,            \* what run_git_command returned: returncode, stdout
    frame,              \* the local variables of get_commit_details
    idx,                \* position of the running loop in lines[1:]
    gcd_pc,
    result,             \* the value get_commit_details returned
    \* main, process_repository, the pool, the queue and writer_process
    repo_paths,         \* per repository: is_git_repo and its commit hashes
    git_show,           \* per commit hash run so far: what git show returned
    batch_size,
    main_pc,
    repo_i,             \* index of the repository main is processing
    pending,            \* hashes whose result the pool has not yet yielded
    completed,
    queue,
    batch_buffer,
    written,            \* the lines written to the output file
    total_commits,
    writer_pc,
    dequeued            \* history: the records queue.get() has handed the writer

an_vars == <<section, diff_lines, file_change, an_pc>>
gcd_vars == <<git_out, frame, idx, gcd_pc, result>>
pipe_vars == <<repo_paths, git_show, batch_size, main_pc, repo_i, pending,
               completed, queue, batch_buffer, written,
               total_commits, writer_pc, dequeued>>
vars == <<an_vars, gcd_vars, pipe_vars>>

-----------------------------------------------------------------------------
(* Bounds of the model. *)

\* the longest body (lines[1:]) of a git show output
MaxLines == 4
\* the longest run of lines after a section's marker
MaxSectionLines == 4
\* the hashes of a run, over all its repositories
MaxHashes == 3
\* the repositories of a run
MaxRepos == 2
\* the largest --batch-size; a batch size below 1 behaves as 1 does
MaxBatch == 2

\* the most tab-separated path fields of a descriptor line
MaxFields == 3
\* the most parents of a commit
MaxParents == 3

-----------------------------------------------------------------------------
(* Python values and string methods. *)

\* None where the code holds a str or None
NonePath == "<None>"

\* None where the code holds a dict or None; DONE is this value
None == [none |-> TRUE]

DONE == None

\* the truth value of a str-or-None: None and "" are false
TruthyStr(s) == s # NonePath /\ s # ""

\* the truth value of a dict-or-None; the dicts of this program are never empty
TruthyDict(d) == d # None

Char(s, i) == SubSeq(s, i, i)

StartsWith(s, prefix) ==
    Len(s) >= Len(prefix) /\ SubSeq(s, 1, Len(prefix)) = prefix

Digits == {"0", "1", "2", "3", "4", "5", "6", "7", "8", "9"}

HexDigits == Digits \cup {"a", "b", "c", "d", "e", "f"}

\* the characters \s matches that a line can hold
Whitespace == {" ", "\t", "\r", "\f"}

\* the first index >= i of s whose character is not in cls (Len(s)+1 if none)
RECURSIVE Span(_, _, _)
Span(s, i, cls) ==
    IF i <= Len(s) /\ Char(s, i) \in cls THEN Span(s, i + 1, cls) ELSE i

\* the first index >= i of s whose character is in cls (Len(s)+1 if none)
RECURSIVE Find(_, _, _)
Find(s, i, cls) ==
    IF i <= Len(s) /\ Char(s, i) \notin cls THEN Find(s, i + 1, cls) ELSE i

\* s.split(sep) for a one-character sep
RECURSIVE Split(_, _)
Split(s, sep) ==
    LET j == Find(s, 1, {sep})
    IN  IF j > Len(s) THEN <<s>>
        ELSE <<SubSeq(s, 1, j - 1)>> \o Split(SubSeq(s, j + 1, Len(s)), sep)

\* s.split(): the maximal runs of non-whitespace
RECURSIVE SplitWS(_)
SplitWS(s) ==
    LET b == Span(s, 1, Whitespace)
        e == Find(s, b, Whitespace)
    IN  IF b > Len(s) THEN <<>>
        ELSE <<SubSeq(s, b, e - 1)>> \o SplitWS(SubSeq(s, e, Len(s)))

\* the last index of s holding c, 0 if none: s.rfind(c) + 1
RECURSIVE RFind(_, _, _)
RFind(s, c, i) ==
    IF i = 0 \/ Char(s, i) = c THEN i ELSE RFind(s, c, i - 1)

\* pathlib's Path(p).suffix: of the last component, from its last dot, unless
\* that dot is its first or last character
Suffix(p) ==
    LET name == SubSeq(p, RFind(p, "/", Len(p)) + 1, Len(p))
        dot == RFind(name, ".", Len(name))
    IN  IF 1 < dot /\ dot < Len(name) THEN SubSeq(name, dot, Len(name)) ELSE ""

-----------------------------------------------------------------------------
(* parse_file_change *)

StatusLetters == {"A", "D", "M", "R", "C", "T"}

\* re.match of
\*   ^:(\d+)\s+(\d+)\s+([a-f0-9]+)\s+([a-f0-9]+)\s+([ADMRCT])(\d+)?\s+(.+)$
\* Every group but the last is followed by a character outside its class, so the
\* greedy match is the only one; the last \s+ takes the whole run of whitespace
\* and gives its final character back to (.+) when nothing else follows it.
MatchFileChange(line) ==
    LET p1 == Span(line, 2, Digits)
        p2 == Span(line, p1, Whitespace)
        p3 == Span(line, p2, Digits)
        p4 == Span(line, p3, Whitespace)
        p5 == Span(line, p4, HexDigits)
        p6 == Span(line, p5, Whitespace)
        p7 == Span(line, p6, HexDigits)
        p8 == Span(line, p7, Whitespace)
        p9 == Span(line, p8 + 1, Digits)
        p10 == Span(line, p9, Whitespace)
        matched ==
            /\ StartsWith(line, ":")
            /\ p1 > 2 /\ p2 > p1 /\ p3 > p2 /\ p4 > p3
            /\ p5 > p4 /\ p6 > p5 /\ p7 > p6 /\ p8 > p7
            /\ p8 <= Len(line) /\ Char(line, p8) \in StatusLetters
            /\ p10 > p9
            /\ (p10 <= Len(line) \/ p10 - p9 >= 2)
    IN  IF matched
        THEN [matched |-> TRUE,
              status |-> Char(line, p8),
              paths |-> IF p10 <= Len(line)
                        THEN SubSeq(line, p10, Len(line))
                        ELSE Char(line, Len(line))]
        ELSE [matched |-> FALSE, status |-> "", paths |-> ""]

\* change_type_map.get(status, 'Modify')
ChangeType(status) ==
    CASE status = "A" -> "Add"
      [] status = "D" -> "Delete"
      [] status = "M" -> "Modify"
      [] status = "R" -> "Rename"
      [] status = "C" -> "Copy"
      [] status = "T" -> "Type"
      [] OTHER -> "Modify"

\* a or b, for str-or-None operands
OrStr(a, b) == IF TruthyStr(a) THEN a ELSE b

ParseFileChange(line) ==
    LET m == MatchFileChange(line)
        path_parts == Split(m.paths, "\t")
        old_path == IF Len(path_parts) = 2 THEN path_parts[1] ELSE NonePath
        new_path == IF Len(path_parts) = 2 THEN path_parts[2] ELSE path_parts[1]
        file_extension ==
            IF TruthyStr(new_path) THEN Suffix(new_path)
            ELSE IF TruthyStr(old_path) THEN Suffix(old_path) ELSE ""
    IN  IF ~m.matched THEN None
        ELSE [change_type |-> ChangeType(m.status),
              path |-> OrStr(new_path, old_path),
              old_path |-> IF old_path # new_path THEN old_path ELSE NonePath,
              file_extension |-> file_extension,
              lines_added |-> 0,
              lines_deleted |-> 0,
              hunks_added |-> 0,
              hunks_removed |-> 0,
              hunks_changed |-> 0]

-----------------------------------------------------------------------------
(* analyze_diff *)

\* the locals of analyze_diff before its loop
AnalyzeStart ==
    [lines_added |-> 0, lines_deleted |-> 0,
     hunks_added |-> 0, hunks_removed |-> 0, hunks_changed |-> 0,
     in_hunk |-> FALSE,
     current_hunk_has_additions |-> FALSE,
     current_hunk_has_deletions |-> FALSE]

\* "Process previous hunk" / "Process last hunk"
ProcessHunk(a) ==
    IF ~a.in_hunk THEN a
    ELSE IF a.current_hunk_has_additions /\ a.current_hunk_has_deletions
         THEN [a EXCEPT !.hunks_changed = @ + 1]
    ELSE IF a.current_hunk_has_additions
         THEN [a EXCEPT !.hunks_added = @ + 1]
    ELSE IF a.current_hunk_has_deletions
         THEN [a EXCEPT !.hunks_removed = @ + 1]
    ELSE a

\* one iteration of `for line in diff_lines`
AnalyzeLine(a, line) ==
    IF StartsWith(line, "@@")
    THEN [ProcessHunk(a) EXCEPT !.in_hunk = TRUE,
                                !.current_hunk_has_additions = FALSE,
                                !.current_hunk_has_deletions = FALSE]
    ELSE IF StartsWith(line, "+") /\ ~StartsWith(line, "+++")
    THEN [a EXCEPT !.lines_added = @ + 1,
                   !.current_hunk_has_additions = TRUE]
    ELSE IF StartsWith(line, "-") /\ ~StartsWith(line, "---")
    THEN [a EXCEPT !.lines_deleted = @ + 1,
                   !.current_hunk_has_deletions = TRUE]
    ELSE a

RECURSIVE AnalyzeLoop(_, _)
AnalyzeLoop(a, ls) ==
    IF ls = <<>> THEN a ELSE AnalyzeLoop(AnalyzeLine(a, Head(ls)), Tail(ls))

\* the file_change analyze_diff returns: its five counters assigned
AnalyzeDiff(ls, fc) ==
    LET a == ProcessHunk(AnalyzeLoop(AnalyzeStart, ls))
    IN  [fc EXCEPT !.lines_added = a.lines_added,
                   !.lines_deleted = a.lines_deleted,
                   !.hunks_added = a.hunks_added,
                   !.hunks_removed = a.hunks_removed,
                   !.hunks_changed = a.hunks_changed]

\* the lines of a matched section that get_commit_details appends to
\* current_diff_lines
Captured(line) ==
    \/ StartsWith(line, "index ")
    \/ StartsWith(line, "---")
    \/ StartsWith(line, "+++")
    \/ StartsWith(line, "@@")
    \/ StartsWith(line, "+")
    \/ StartsWith(line, "-")
    \/ StartsWith(line, " ")
    \/ StartsWith(line, "\\")
    \/ line = ""

-----------------------------------------------------------------------------
(* find_file_change_by_path and get_commit_details *)

\* the reference that stands for no object
NullRef == 0

\* file_changes_dict is a Python dict: its entries keep the order in which
\* their keys were first inserted, and an assignment to a present key replaces
\* the value in place.
DictKeys(d) == {d[k].key : k \in 1..Len(d)}

DictGet(d, key) == d[CHOOSE k \in 1..Len(d) : d[k].key = key].ref

DictSet(d, key, ref) ==
    IF key \in DictKeys(d)
    THEN [k \in 1..Len(d) |-> IF d[k].key = key THEN [key |-> key, ref |-> ref]
                                               ELSE d[k]]
    ELSE Append(d, [key |-> key, ref |-> ref])

\* whether the object fc answers to path
PathMatches(fc, path) ==
    fc.path = path \/ (TruthyStr(fc.old_path) /\ fc.old_path = path)

\* find_file_change_by_path with `return fc` after the loop in place of
\* `return None`: a path no object answers to gets the last object looked at
FindLastLooked(heap, d, path) ==
    LET hits == {k \in 1..Len(d) : PathMatches(heap[d[k].ref], path)}
    IN  IF hits # {} THEN d[CHOOSE k \in hits : \A j \in hits : k <= j].ref
        ELSE IF d = <<>> THEN NullRef ELSE d[Len(d)].ref

\* the first of file_changes_dict.values() that answers to path, NullRef if none
FindFileChangeByPath(heap, d, path) ==
    LET hits == {k \in 1..Len(d) : PathMatches(heap[d[k].ref], path)}
    IN  IF hits = {} THEN NullRef
        ELSE d[CHOOSE k \in hits : \A j \in hits : k <= j].ref

\* the locals of get_commit_details when the first pass begins
FrameStart ==
    [heap |-> <<>>,
     file_changes_dict |-> <<>>,
     file_changes_list |-> <<>>,
     current_file_path |-> NonePath,
     current_diff_lines |-> <<>>]

\* one iteration of the first pass over lines[1:]
FirstPassLine(f, line) ==
    LET fc == ParseFileChange(line)
        ref == Len(f.heap) + 1
        d1 == DictSet(f.file_changes_dict, fc.path, ref)
    IN  IF StartsWith(line, ":") /\ TruthyDict(fc)
        THEN [f EXCEPT
                !.heap = Append(@, fc),
                !.file_changes_list = Append(@, fc.path),
                !.file_changes_dict =
                    IF TruthyStr(fc.old_path) /\ fc.old_path # fc.path
                    THEN DictSet(d1, fc.old_path, ref)
                    ELSE d1]
        ELSE f

\* "Save previous file's diff if exists" / "Save last file's diff"
SaveTarget(f) ==
    IF TruthyStr(f.current_file_path) /\ f.current_diff_lines # <<>>
    THEN FindFileChangeByPath(f.heap, f.file_changes_dict, f.current_file_path)
    ELSE NullRef

SaveDiff(f) ==
    LET ref == SaveTarget(f)
        updated_fc == AnalyzeDiff(f.current_diff_lines, f.heap[ref])
        d1 == DictSet(f.file_changes_dict, updated_fc.path, ref)
    IN  IF ref = NullRef THEN f
        ELSE [f EXCEPT
                !.heap[ref] = updated_fc,
                !.file_changes_dict =
                    IF TruthyStr(updated_fc.old_path)
                       /\ updated_fc.old_path # updated_fc.path
                    THEN DictSet(d1, updated_fc.old_path, ref)
                    ELSE d1]

\* parts[2] with its "a/" taken off, or parts[3] with its "b/", None without it
SidePath(part, prefix) ==
    IF StartsWith(part, prefix)
    THEN SubSeq(part, Len(prefix) + 1, Len(part))
    ELSE NonePath

\* the current_file_path a "diff --git" line sets
MarkerPath(line) ==
    LET parts == SplitWS(line)
        a_path == SidePath(parts[3], "a/")
        b_path == SidePath(parts[4], "b/")
    IN  IF Len(parts) >= 4
        THEN IF TruthyStr(b_path) /\ b_path # "/dev/null" THEN b_path
             ELSE IF TruthyStr(a_path) /\ a_path # "/dev/null" THEN a_path
             ELSE NonePath
        ELSE NonePath

\* one iteration of the second pass over lines[1:]
SecondPassLine(f, line) ==
    IF StartsWith(line, ":") THEN f
    ELSE IF StartsWith(line, "diff --git")
    THEN LET path == MarkerPath(line)
         IN  [SaveDiff(f) EXCEPT
                !.current_file_path = path,
                !.current_diff_lines =
                    IF TruthyStr(path) THEN <<line>> ELSE <<>>]
    ELSE IF TruthyStr(f.current_file_path)
            /\ FindFileChangeByPath(f.heap, f.file_changes_dict,
                                    f.current_file_path) # NullRef
            /\ Captured(line)
    THEN [f EXCEPT !.current_diff_lines = Append(@, line)]
    ELSE f

\* "Convert back to list in original order"
FileChanges(f) ==
    LET present == SelectSeq(f.file_changes_list,
                             LAMBDA p : p \in DictKeys(f.file_changes_dict))
    IN  [k \in 1..Len(present) |->
            f.heap[DictGet(f.file_changes_dict, present[k])]]

\* a total that is assigned where it should be added to: the field of the
\* last entry
SumFieldOfLast(fcs, field) ==
    IF fcs = <<>> THEN 0 ELSE fcs[Len(fcs)][field]

\* sum(fc[field] for fc in file_changes)
RECURSIVE SumField(_, _)
SumField(fcs, field) ==
    IF fcs = <<>> THEN 0 ELSE Head(fcs)[field] + SumField(Tail(fcs), field)

\* sum(1 for fc in file_changes if fc["change_type"] == change_type)
CountType(fcs, change_type) ==
    Len(SelectSeq(fcs, LAMBDA fc : fc.change_type = change_type))

\* int(s) of a string of decimal digits
RECURSIVE StrToInt(_)
StrToInt(s) ==
    IF s = "" THEN 0
    ELSE 10 * StrToInt(SubSeq(s, 1, Len(s) - 1))
         + (Find("0123456789", 1, {Char(s, Len(s))}) - 1)

\* datetime.fromtimestamp(timestamp).strftime(...): the text of a local time,
\* kept as the pair of its format and the instant it renders
FormatTime(timestamp) == <<"%Y-%m-%d %H:%M:%S", timestamp>>

\* whether get_commit_details returns None before any parsing
Dropped(out) ==
    \/ out.returncode # 0
    \/ (out.header_parts = <<"">> /\ out.body = <<>>)
    \/ Len(out.header_parts) < 4

\* the test of a merge with `>=` in place of `>`
IsMergeFromOne(parents) == Len(parents) >= 1

\* "Determine if this is a merge commit (has more than one parent)"
IsMerge(parents) == Len(parents) > 1

\* the dict get_commit_details returns
CommitRecord(out, f, commit_hash, org, repo) ==
    LET parents == IF out.header_parts[3] # ""
                   THEN SplitWS(out.header_parts[3]) ELSE <<>>
        file_changes == FileChanges(f)
    IN  [hash |-> commit_hash,
         org |-> org,
         repo |-> repo,
         author |-> out.header_parts[2],
         time |-> FormatTime(StrToInt(out.header_parts[1])),
         message |-> out.header_parts[4],
         merge |-> IsMerge(parents),
         files_added |-> CountType(file_changes, "Add"),
         files_deleted |-> CountType(file_changes, "Delete"),
         files_renamed |-> CountType(file_changes, "Rename"),
         files_modified |-> CountType(file_changes, "Modify"),
         lines_added |-> SumField(file_changes, "lines_added"),
         lines_deleted |-> SumField(file_changes, "lines_deleted"),
         hunks_added |-> SumField(file_changes, "hunks_added"),
         hunks_removed |-> SumField(file_changes, "hunks_removed"),
         hunks_changed |-> SumField(file_changes, "hunks_changed"),
         file_changes |-> file_changes]

RECURSIVE FirstPass(_, _)
FirstPass(f, ls) ==
    IF ls = <<>> THEN f ELSE FirstPass(FirstPassLine(f, Head(ls)), Tail(ls))

RECURSIVE SecondPass(_, _)
SecondPass(f, ls) ==
    IF ls = <<>> THEN f ELSE SecondPass(SecondPassLine(f, Head(ls)), Tail(ls))

\* get_commit_details as a function of what git show returned
GetCommitDetails(out, commit_hash, org, repo) ==
    IF Dropped(out) THEN None
    ELSE CommitRecord(out,
                      SaveDiff(SecondPass(FirstPass(FrameStart, out.body),
                                          out.body)),
                      commit_hash, org, repo)

-----------------------------------------------------------------------------
(* The values the variables of a specification hold while it does not run *)
(* the part of the program they belong to.                                 *)

AnIdle ==
    /\ section = <<>>
    /\ diff_lines = <<>>
    /\ file_change = None
    /\ an_pc = "idle"

GcdIdle ==
    /\ git_out = [returncode |-> 0, header_parts |-> <<"">>, body |-> <<>>]
    /\ frame = FrameStart
    /\ idx = 1
    /\ gcd_pc = "idle"
    /\ result = None

PipeIdle ==
    /\ repo_paths = <<>>
    /\ git_show = <<>>
    /\ batch_size = 0
    /\ main_pc = "idle"
    /\ repo_i = 1
    /\ pending = {}
    /\ completed = 0
    /\ queue = <<>>
    /\ batch_buffer = <<>>
    /\ written = <<>>
    /\ total_commits = 0
    /\ writer_pc = "idle"
    /\ dequeued = <<>>

\* the sequences over S of length at most n
SeqsUpTo(S, n) == UNION {[1..k -> S] : k \in 0..n}

-----------------------------------------------------------------------------
(* AnalyzeSpec: one diff section of a commit that changes the file f, taken *)
(* through the second pass of get_commit_details and then analyze_diff.    *)

SectionMarker == "diff --git a/f b/f"

SectionDescriptor == ":100644 100644 abc def M\tf"

\* the lines that may follow the marker
SectionLines ==
    {"--- a/f", "+++ b/f", "@@ -5,3 +5,5 @@", "+x", "-x", "Binary files differ"}

AnInit ==
    /\ section \in {<<SectionMarker>> \o ls :
                        ls \in SeqsUpTo(SectionLines, MaxSectionLines)}
    /\ diff_lines = <<>>
    /\ file_change = ParseFileChange(SectionDescriptor)
    /\ an_pc = "collect"
    /\ GcdIdle
    /\ PipeIdle

\* the second pass gathers the section into current_diff_lines
AnCollect ==
    /\ an_pc = "collect"
    /\ diff_lines' =
         SecondPass(FirstPass(FrameStart, <<SectionDescriptor>>),
                    section).current_diff_lines
    /\ an_pc' = "analyze"
    /\ UNCHANGED <<section, file_change, gcd_vars, pipe_vars>>

\* analyze_diff(current_diff_lines, file_change_to_update)
AnAnalyze ==
    /\ an_pc = "analyze"
    /\ file_change' = AnalyzeDiff(diff_lines, file_change)
    /\ an_pc' = "done"
    /\ UNCHANGED <<section, diff_lines, gcd_vars, pipe_vars>>

AnNext == AnCollect \/ AnAnalyze

AnalyzeSpec == AnInit /\ [][AnNext]_vars

-----------------------------------------------------------------------------
(* DetailsSpec: get_commit_details on what git show may return for a       *)
(* commit; the second pass takes one line of lines[1:] at a time.          *)

\* "%ct%x00%aN%x00%P%x00%s%x00" split at the null bytes
GoodHeader == <<"1700", "Ann", "p1", "subject", "">>

\* raw change descriptors: an add, a modify and a rename that share the path
\* a, a delete, and a combined-diff line, which the expression rejects
DescriptorLines ==
    {":000000 100644 000 def A\ta",
     ":100644 100644 abc def M\ta",
     ":100644 100644 abc def R100\ta\tb",
     ":100644 000000 abc 000 D\tb",
     "::100644 100644 100644 abc abc def MM\ta"}

\* the lines of the patch: the markers of a section of a, of the renamed file
\* and of a file no descriptor names, and section content
PatchLines ==
    {"diff --git a/a b/a",
     "diff --git a/a b/b",
     "diff --git a/z b/z",
     "@@ -1 +1 @@",
     "+x",
     "-x"}

\* lines[1:] of a git show output: the raw descriptors, then the patch
Bodies ==
    UNION {{d \o p : d \in [1..k -> DescriptorLines],
                     p \in [1..j -> PatchLines]} :
           <<k, j>> \in {x \in (0..MaxLines) \X (0..MaxLines) :
                            x[1] + x[2] <= MaxLines}}

\* what run_git_command returns for a commit that is dropped: git failed, git
\* printed nothing, the first line has fewer than four fields
FailedOutputs ==
    {[returncode |-> 128, header_parts |-> <<"">>, body |-> <<>>],
     [returncode |-> 0, header_parts |-> <<"">>, body |-> <<>>],
     [returncode |-> 0, header_parts |-> <<"1700", "Ann", "p1">>, body |-> <<>>]}

\* %P: the hashes of n parents, a space between them
RECURSIVE ParentsField(_)
ParentsField(n) ==
    IF n = 0 THEN ""
    ELSE IF n = 1 THEN "p1"
    ELSE ParentsField(n - 1) \o " p" \o ToString(n)

\* outputs for commits of no parent (a root commit), one parent and more (a
\* merge), with no file change or one
ParentOutputs ==
    {[returncode |-> 0,
      header_parts |-> <<"1700", "Ann", ParentsField(n), "subject", "">>,
      body |-> b] :
        n \in 0..MaxParents, b \in {<<>>, <<":100644 100644 abc def M\ta">>}}

GcdInputs ==
    FailedOutputs
    \cup {[returncode |-> 0, header_parts |-> GoodHeader, body |-> b] :
            b \in Bodies}
    \cup ParentOutputs

GcdInit ==
    /\ git_out \in GcdInputs
    /\ frame = FrameStart
    /\ idx = 1
    /\ gcd_pc = "start"
    /\ result = None
    /\ AnIdle
    /\ PipeIdle

\* run_git_command, the early returns and the header
GcdStart ==
    /\ gcd_pc = "start"
    /\ IF Dropped(git_out)
       THEN gcd_pc' = "done" /\ result' = None
       ELSE gcd_pc' = "pass1" /\ result' = result
    /\ UNCHANGED <<git_out, frame, idx, an_vars, pipe_vars>>

\* "First pass: collect all file changes from : lines", and the locals of
\* the second pass
GcdFirstPass ==
    /\ gcd_pc = "pass1"
    /\ frame' = [FirstPass(frame, git_out.body) EXCEPT
                    !.current_file_path = NonePath,
                    !.current_diff_lines = <<>>]
    /\ gcd_pc' = "pass2"
    /\ UNCHANGED <<git_out, idx, result, an_vars, pipe_vars>>

\* "Second pass: collect and match diff sections to files"
GcdSecondPassLine ==
    /\ gcd_pc = "pass2"
    /\ idx <= Len(git_out.body)
    /\ frame' = SecondPassLine(frame, git_out.body[idx])
    /\ idx' = idx + 1
    /\ UNCHANGED <<git_out, gcd_pc, result, an_vars, pipe_vars>>

\* "Save last file's diff", the totals and the return
GcdFinish ==
    /\ gcd_pc = "pass2"
    /\ idx > Len(git_out.body)
    /\ frame' = SaveDiff(frame)
    /\ result' = CommitRecord(git_out, frame', "h1", "org", "repo")
    /\ gcd_pc' = "done"
    /\ UNCHANGED <<git_out, idx, an_vars, pipe_vars>>

GcdNext ==
    \/ GcdStart
    \/ GcdFirstPass
    \/ GcdSecondPassLine
    \/ GcdFinish

DetailsSpec == GcdInit /\ [][GcdNext]_vars

-----------------------------------------------------------------------------
(* ParseSpec: get_commit_details on a commit whose raw listing is one       *)
(* descriptor line, which the first pass hands to parse_file_change; the    *)
(* FileChange it returns, if any, is frame.heap[1].                         *)

\* modes and object names of a descriptor line, up to its status letter
DescriptorPrefix == ":100644 100644 abc def "

\* the status letters of git, and X (unknown) and U (unmerged) among them
ParseStatuses == StatusLetters \cup {"X", "U"}

\* the similarity score that may follow the status letter
ParseScores == {"", "100"}

\* what a path field may hold
PathFields == {"", "a", "b"}

\* "\t".join(fields)
RECURSIVE JoinTabs(_)
JoinTabs(fields) ==
    IF Len(fields) = 1 THEN fields[1]
    ELSE fields[1] \o "\t" \o JoinTabs(Tail(fields))

\* the descriptor line of a status, a score and path fields
DescriptorLine(status, score, fields) ==
    DescriptorPrefix \o status \o score \o "\t" \o JoinTabs(fields)

ParseLines ==
    {DescriptorLine(status, score, fields) :
        status \in ParseStatuses, score \in ParseScores,
        fields \in UNION {[1..k -> PathFields] : k \in 1..MaxFields}}

ParseInit ==
    /\ git_out \in {[returncode |-> 0, header_parts |-> GoodHeader,
                      body |-> <<line>>] : line \in ParseLines}
    /\ frame = FrameStart
    /\ idx = 1
    /\ gcd_pc = "start"
    /\ result = None
    /\ AnIdle
    /\ PipeIdle

ParseSpec == ParseInit /\ [][GcdNext]_vars

-----------------------------------------------------------------------------
(* MarkerSpec: get_commit_details on a commit that modifies every file of   *)
(* MarkerNames and whose patch is one section: a marker and an added line.  *)

\* file names: plain, in a directory and with a space
MarkerNames == {"a", "b", "d/c.py", "my file"}

\* the a side and the b side of a marker: a file, or no file
ASides == {"a/" \o name : name \in MarkerNames} \cup {"/dev/null"}

BSides == {"b/" \o name : name \in MarkerNames} \cup {"/dev/null"}

\* "diff --git a/oldpath b/newpath"
MarkerLine(a_side, b_side) == "diff --git " \o a_side \o " " \o b_side

\* the raw listing, one descriptor for each name, and the section
MarkerBody(a_side, b_side) ==
    <<":100644 100644 abc def M\ta",
      ":100644 100644 abc def M\tb",
      ":100644 100644 abc def M\td/c.py",
      ":100644 100644 abc def M\tmy file",
      MarkerLine(a_side, b_side),
      "+x">>

MarkerInit ==
    /\ git_out \in {[returncode |-> 0, header_parts |-> GoodHeader,
                      body |-> MarkerBody(a_side, b_side)] :
                        a_side \in ASides, b_side \in BSides}
    /\ frame = FrameStart
    /\ idx = 1
    /\ gcd_pc = "start"
    /\ result = None
    /\ AnIdle
    /\ PipeIdle

MarkerSpec == MarkerInit /\ [][GcdNext]_vars

-----------------------------------------------------------------------------
(* Spec: main, process_repository over each repository, and writer_process. *)
(* A commit hash is a number, a repository's org and repo are "org" and its *)
(* index.  The workers share nothing and only the order in which            *)
(* imap_unordered yields their results is seen by main, so a task's run and *)
(* the loop iteration that receives its result are one action.             *)

\* what git show prints for a commit that modifies one file
GoodOutput ==
    [returncode |-> 0,
     header_parts |-> GoodHeader,
     body |-> <<":100644 100644 abc def M\ta">>]

GitShowOutputs == FailedOutputs \cup {GoodOutput}

RECURSIVE SumSeq(_)
SumSeq(ns) == IF ns = <<>> THEN 0 ELSE Head(ns) + SumSeq(Tail(ns))

\* the repositories of a run: repo_paths is never empty; a path that is no git
\* repository has no commits; the hashes of the run are 1, 2, ... in the order
\* of the repositories
RepoLists ==
    LET Shapes == UNION {[1..k -> [is_git_repo : BOOLEAN, n : 0..MaxHashes]] :
                            k \in 1..MaxRepos}
        Good(sh) == /\ \A r \in 1..Len(sh) : ~sh[r].is_git_repo => sh[r].n = 0
                    /\ SumSeq([r \in 1..Len(sh) |-> sh[r].n]) <= MaxHashes
        First(sh, r) == SumSeq([q \in 1..(r - 1) |-> sh[q].n])
    IN  {[r \in 1..Len(sh) |->
            [is_git_repo |-> sh[r].is_git_repo,
             commit_hashes |-> [k \in 1..sh[r].n |-> First(sh, r) + k]]] :
         sh \in {x \in Shapes : Good(x)}}

\* the hashes get_commit_hashes returns over the whole run
Scheduled ==
    UNION {{repo_paths[r].commit_hashes[k] :
                k \in 1..Len(repo_paths[r].commit_hashes)} :
           r \in 1..Len(repo_paths)}

Init ==
    /\ repo_paths \in RepoLists
    /\ git_show = <<>>
    /\ batch_size \in 1..MaxBatch
    /\ main_pc = "start"
    /\ repo_i = 1
    /\ pending = {}
    /\ completed = 0
    /\ queue = <<>>
    /\ batch_buffer = <<>>
    /\ written = <<>>
    /\ total_commits = 0
    /\ writer_pc = "idle"
    /\ dequeued = <<>>
    /\ AnIdle
    /\ GcdIdle

\* json.dumps(c) + "\n": the line of text that renders c
JsonLine(c) == [json |-> c]

JsonLines(cs) == [k \in 1..Len(cs) |-> JsonLine(cs[k])]

\* process_single_commit, out being what git show returns to it
ProcessSingleCommit(out, repo, commit_hash) ==
    GetCommitDetails(out, commit_hash, "org", repo)

\* main: writer.start()
StartWriter ==
    /\ main_pc = "start"
    /\ main_pc' = "repos"
    /\ writer_pc' = "get"
    /\ UNCHANGED <<repo_paths, git_show, batch_size, repo_i, pending, completed,
                   queue, batch_buffer, written, total_commits, dequeued,
                   an_vars, gcd_vars>>

\* process_repository returns early: not a repository, or no commits
SkipRepository ==
    /\ main_pc = "repos"
    /\ repo_i <= Len(repo_paths)
    /\ \/ ~repo_paths[repo_i].is_git_repo
       \/ repo_paths[repo_i].commit_hashes = <<>>
    /\ repo_i' = repo_i + 1
    /\ UNCHANGED <<repo_paths, git_show, batch_size, main_pc, pending,
                   completed, queue, batch_buffer, written, total_commits,
                   writer_pc, dequeued, an_vars, gcd_vars>>

\* process_repository hands every hash of the repository to the pool
OpenPool ==
    /\ main_pc = "repos"
    /\ repo_i <= Len(repo_paths)
    /\ repo_paths[repo_i].is_git_repo
    /\ repo_paths[repo_i].commit_hashes # <<>>
    /\ pending' = {repo_paths[repo_i].commit_hashes[k] :
                       k \in 1..Len(repo_paths[repo_i].commit_hashes)}
    /\ completed' = 0
    /\ main_pc' = "pool"
    /\ UNCHANGED <<repo_paths, git_show, batch_size, repo_i, queue,
                   batch_buffer, written, total_commits, writer_pc, dequeued,
                   an_vars, gcd_vars>>

\* a queue that hands over the newest result first
PutFront(q, res) == IF TruthyDict(res) THEN <<res>> \o q ELSE q

\* queue.put(result) without the `if result:` before it
PutAlways(q, res) == Append(q, res)

\* what queue.put leaves in the queue for a task's result: `if result:`
PutResult(q, res) == IF TruthyDict(res) THEN Append(q, res) ELSE q

\* one iteration of `for result in pool.imap_unordered(...)`: any unfinished
\* task may be the next to complete, on any output of git show; after the last
\* one the pool is closed and process_repository returns
HandleResult(h, out) ==
    /\ main_pc = "pool"
    /\ h \in pending
    /\ git_show' = (h :> out) @@ git_show
    /\ queue' = PutResult(queue, ProcessSingleCommit(out, repo_i, h))
    /\ completed' = completed + 1
    /\ pending' = pending \ {h}
    /\ IF pending' = {}
       THEN main_pc' = "repos" /\ repo_i' = repo_i + 1
       ELSE main_pc' = main_pc /\ repo_i' = repo_i
    /\ UNCHANGED <<repo_paths, batch_size, batch_buffer, written,
                   total_commits, writer_pc, dequeued, an_vars, gcd_vars>>

\* queue.put(DONE) moved into the loop, before the last repository
SendDoneEarly ==
    /\ main_pc = "repos"
    /\ repo_i >= Len(repo_paths)
    /\ queue' = Append(queue, DONE)
    /\ main_pc' = "join"
    /\ UNCHANGED <<repo_paths, git_show, batch_size, repo_i, pending, completed,
                   batch_buffer, written, total_commits, writer_pc, dequeued,
                   an_vars, gcd_vars>>

\* main without its queue.put(DONE): it goes straight to writer.join()
SendNoSignal ==
    /\ main_pc = "repos"
    /\ repo_i > Len(repo_paths)
    /\ main_pc' = "join"
    /\ UNCHANGED <<repo_paths, git_show, batch_size, repo_i, pending, completed,
                   queue, batch_buffer, written, total_commits, writer_pc,
                   dequeued, an_vars, gcd_vars>>

\* main: queue.put(DONE) after the last repository
SendDone ==
    /\ main_pc = "repos"
    /\ repo_i > Len(repo_paths)
    /\ queue' = Append(queue, DONE)
    /\ main_pc' = "join"
    /\ UNCHANGED <<repo_paths, git_show, batch_size, repo_i, pending, completed,
                   batch_buffer, written, total_commits, writer_pc, dequeued,
                   an_vars, gcd_vars>>

\* main: writer.join() returns
Join ==
    /\ main_pc = "join"
    /\ writer_pc = "done"
    /\ main_pc' = "exit"
    /\ UNCHANGED <<repo_paths, git_show, batch_size, repo_i, pending, completed,
                   queue, batch_buffer, written, total_commits, writer_pc,
                   dequeued, an_vars, gcd_vars>>

\* the flush without `batch_buffer = []` after it
FlushBatchKeep(buffer) ==
    IF Len(buffer) >= batch_size
    THEN [lines |-> JsonLines(buffer), buffer |-> buffer]
    ELSE [lines |-> <<>>, buffer |-> buffer]

\* the flush with `>` in place of `>=`
FlushBatchLate(buffer) ==
    IF Len(buffer) > batch_size
    THEN [lines |-> JsonLines(buffer), buffer |-> <<>>]
    ELSE [lines |-> <<>>, buffer |-> buffer]

\* writer_process after batch_buffer.append(commit): the lines it writes and
\* the buffer it keeps
FlushBatch(buffer) ==
    IF Len(buffer) >= batch_size
    THEN [lines |-> JsonLines(buffer), buffer |-> <<>>]
    ELSE [lines |-> <<>>, buffer |-> buffer]

\* writer_process: queue.get() hands over a record
WriterRecord ==
    /\ writer_pc = "get"
    /\ queue # <<>>
    /\ Head(queue) # DONE
    /\ queue' = Tail(queue)
    /\ dequeued' = Append(dequeued, Head(queue))
    /\ LET fl == FlushBatch(Append(batch_buffer, Head(queue)))
       IN  /\ written' = written \o fl.lines
           /\ total_commits' = total_commits + Len(fl.lines)
           /\ batch_buffer' = fl.buffer
    /\ UNCHANGED <<repo_paths, git_show, batch_size, main_pc, repo_i, pending,
                   completed, writer_pc, an_vars, gcd_vars>>

\* writer_process without the flush of the remaining buffer
FlushNothing(buffer) == <<>>

\* the lines writer_process writes when it has got DONE: "Flush remaining
\* buffer"
FlushRemaining(buffer) == JsonLines(buffer)

\* writer_process: queue.get() hands over DONE
WriterDone ==
    /\ writer_pc = "get"
    /\ queue # <<>>
    /\ Head(queue) = DONE
    /\ queue' = Tail(queue)
    /\ written' = written \o FlushRemaining(batch_buffer)
    /\ total_commits' = total_commits + Len(FlushRemaining(batch_buffer))
    /\ writer_pc' = "done"
    /\ UNCHANGED <<repo_paths, git_show, batch_size, main_pc, repo_i, pending,
                   completed, batch_buffer, dequeued, an_vars, gcd_vars>>

Next ==
    \/ StartWriter
    \/ SkipRepository
    \/ OpenPool
    \/ \E h \in Scheduled, out \in GitShowOutputs : HandleResult(h, out)
    \/ SendDone
    \/ Join
    \/ WriterRecord
    \/ WriterDone

Spec == Init /\ [][Next]_vars

-----------------------------------------------------------------------------
(* LiveSpec: the run of Spec in which both processes keep running. main is  *)
(* a process of its own and every task the pool was given completes, so a   *)
(* step of main that stays possible is taken; the writer is a process of    *)
(* its own, and queue.get() returns when the queue holds an element.        *)
(* A task is seen from process_repository: git show fails and the task      *)
(* returns None, or git show prints GoodOutput and the task returns its     *)
(* record, which is written out here as GetCommitDetails computes it.       *)

\* what run_git_command returns when git fails: the task completes dropped
DroppedOutput == [returncode |-> 128, header_parts |-> <<"">>, body |-> <<>>]

\* the dict get_commit_details returns for GoodOutput
GoodRecord(repo, commit_hash) ==
    [hash |-> commit_hash,
     org |-> "org",
     repo |-> repo,
     author |-> "Ann",
     time |-> <<"%Y-%m-%d %H:%M:%S", 1700>>,
     message |-> "subject",
     merge |-> FALSE,
     files_added |-> 0,
     files_deleted |-> 0,
     files_renamed |-> 0,
     files_modified |-> 1,
     lines_added |-> 0,
     lines_deleted |-> 0,
     hunks_added |-> 0,
     hunks_removed |-> 0,
     hunks_changed |-> 0,
     file_changes |-> <<[change_type |-> "Modify",
                         path |-> "a",
                         old_path |-> NonePath,
                         file_extension |-> "",
                         lines_added |-> 0,
                         lines_deleted |-> 0,
                         hunks_added |-> 0,
                         hunks_removed |-> 0,
                         hunks_changed |-> 0]>>]

\* what process_single_commit returns on DroppedOutput and on GoodOutput
TaskResult(out, repo, commit_hash) ==
    IF out.returncode # 0 THEN None ELSE GoodRecord(repo, commit_hash)

\* one iteration of `for result in pool.imap_unordered(...)`, as HandleResult,
\* the task having returned TaskResult
TaskDone(h, out) ==
    /\ main_pc = "pool"
    /\ h \in pending
    /\ git_show' = (h :> out) @@ git_show
    /\ queue' = PutResult(queue, TaskResult(out, repo_i, h))
    /\ completed' = completed + 1
    /\ pending' = pending \ {h}
    /\ IF pending' = {}
       THEN main_pc' = "repos" /\ repo_i' = repo_i + 1
       ELSE main_pc' = main_pc /\ repo_i' = repo_i
    /\ UNCHANGED <<repo_paths, batch_size, batch_buffer, written,
                   total_commits, writer_pc, dequeued, an_vars, gcd_vars>>

\* the steps of the main process, the pool's results included
MainNext ==
    \/ StartWriter
    \/ SkipRepository
    \/ OpenPool
    \/ \E h \in Scheduled : TaskDone(h, DroppedOutput)
    \/ \E h \in Scheduled : TaskDone(h, GoodOutput)
    \/ SendDone
    \/ Join

\* the steps of the writer's process
WriterNext ==
    \/ WriterRecord
    \/ WriterDone

LiveNext ==
    \/ MainNext
    \/ WriterNext

LiveSpec ==
    /\ Init
    /\ [][LiveNext]_vars
    /\ WF_vars(MainNext)
    /\ WF_vars(WriterNext)

-----------------------------------------------------------------------------
(* FailSpec: the run of Spec when f.write may raise (storage exhausted).    *)
(* The exception leaves writer_process; the writer's process ends, and      *)
(* main, which reads nothing of the writer but writer.join(), goes on.      *)

\* writer_process: queue.get() hands over the record that fills the batch, or
\* DONE while the buffer holds records, and f.write raises; no line is written
WriterFail ==
    /\ writer_pc = "get"
    /\ queue # <<>>
    /\ IF Head(queue) = DONE
       THEN /\ batch_buffer # <<>>
            /\ UNCHANGED <<batch_buffer, dequeued>>
       ELSE /\ Len(batch_buffer) + 1 >= batch_size
            /\ batch_buffer' = Append(batch_buffer, Head(queue))
            /\ dequeued' = Append(dequeued, Head(queue))
    /\ queue' = Tail(queue)
    /\ writer_pc' = "failed"
    /\ UNCHANGED <<repo_paths, git_show, batch_size, main_pc, repo_i, pending,
                   completed, written, total_commits, an_vars, gcd_vars>>

\* main: writer.join() returns for a writer that ended with an exception
JoinFailed ==
    /\ main_pc = "join"
    /\ writer_pc = "failed"
    /\ main_pc' = "exit"
    /\ UNCHANGED <<repo_paths, git_show, batch_size, repo_i, pending, completed,
                   queue, batch_buffer, written, total_commits, writer_pc,
                   dequeued, an_vars, gcd_vars>>

FailNext ==
    \/ Next
    \/ WriterFail
    \/ JoinFailed

FailSpec == Init /\ [][FailNext]_vars

-----------------------------------------------------------------------------
(* Properties of get_commit_details, checked under DetailsSpec. *)

\* get_commit_details has returned a record
Returned == gcd_pc = "done" /\ result # None

\* the sum of a field over fcs[1..n], taken entry by entry
RECURSIVE C1_SumTo(_, _, _)
C1_SumTo(fcs, field, n) ==
    IF n = 0 THEN 0 ELSE C1_SumTo(fcs, field, n - 1) + fcs[n][field]

C1_Count(fcs, change_type) ==
    Cardinality({k \in 1..Len(fcs) : fcs[k].change_type = change_type})

\* C1: in every record get_commit_details returns, each of lines_added,
\* lines_deleted, hunks_added, hunks_removed and hunks_changed is the sum of
\* that field over the record's file_changes, and files_added, files_deleted,
\* files_renamed and files_modified are the numbers of entries of file_changes
\* whose change_type is Add, Delete, Rename and Modify.
C1_AggregatesAreSums ==
    Returned =>
        LET fcs == result.file_changes
        IN  /\ \A field \in {"lines_added", "lines_deleted", "hunks_added",
                             "hunks_removed", "hunks_changed"} :
                    result[field] = C1_SumTo(fcs, field, Len(fcs))
            /\ result.files_added = C1_Count(fcs, "Add")
            /\ result.files_deleted = C1_Count(fcs, "Delete")
            /\ result.files_renamed = C1_Count(fcs, "Rename")
            /\ result.files_modified = C1_Count(fcs, "Modify")

\* a record of two entries or more, a rename among them, that counts a line
C1_Witness ==
    /\ Returned
    /\ Len(result.file_changes) >= 2
    /\ result.files_renamed >= 1
    /\ result.lines_added >= 1

\* the FileChanges the descriptor lines of a body create, in their order
C3_Created(body) ==
    LET parsed == [k \in 1..Len(body) |-> ParseFileChange(body[k])]
    IN  SelectSeq(parsed, LAMBDA fc : TruthyDict(fc))

\* C3: the file_changes of a record has one entry per descriptor line that
\* parses, and its i-th entry has the change_type, path and old_path of the
\* FileChange made from the i-th such line.
C3_ListFollowsDescriptors ==
    Returned =>
        LET created == C3_Created(git_out.body)
            fcs == result.file_changes
        IN  /\ Len(fcs) = Len(created)
            /\ \A i \in 1..Len(fcs) :
                    /\ fcs[i].change_type = created[i].change_type
                    /\ fcs[i].path = created[i].path
                    /\ fcs[i].old_path = created[i].old_path

\* the second pass is about to save the section of current_file_path
C4_SavePending ==
    /\ gcd_pc = "pass2"
    /\ \/ idx > Len(git_out.body)
       \/ StartsWith(git_out.body[idx], "diff --git")
    /\ TruthyStr(frame.current_file_path)

\* the FileChanges created for the commit whose path or old_path is p
C4_Answering(p) ==
    {r \in 1..Len(frame.heap) :
        frame.heap[r].path = p \/ frame.heap[r].old_path = p}

\* C4: when a section's attribution path is the path or old_path of some
\* FileChange created for the commit, the save of that section records its
\* statistics on the first such FileChange in descriptor order and leaves
\* every other FileChange as it was.
C4_RecordedOnFirstAnswering ==
    [][(C4_SavePending /\ C4_Answering(frame.current_file_path) # {}) =>
         LET hits == C4_Answering(frame.current_file_path)
             first == CHOOSE r \in hits : \A q \in hits : r <= q
         IN  /\ frame'.heap[first] =
                    AnalyzeDiff(frame.current_diff_lines, frame.heap[first])
             /\ \A r \in 1..Len(frame.heap) :
                    r # first => frame'.heap[r] = frame.heap[r]]_vars

\* whether fc answers to the attribution path p of a section
C9_Answers(fc, p) == TruthyStr(p) /\ (fc.path = p \/ fc.old_path = p)

\* the index after the last line of the section whose marker is body[k]
C9_SectionEnd(body, k) ==
    LET later == {j \in (k + 1)..Len(body) : StartsWith(body[j], "diff --git")}
    IN  IF later = {} THEN Len(body) + 1
        ELSE CHOOSE j \in later : \A i \in later : j <= i

\* body without the section whose marker is body[k]
C9_Without(body, k) ==
    SubSeq(body, 1, k - 1) \o SubSeq(body, C9_SectionEnd(body, k), Len(body))

\* the markers of the sections of the commit that no FileChange answers to
C9_Unmatched ==
    {k \in 1..Len(git_out.body) :
        /\ StartsWith(git_out.body[k], "diff --git")
        /\ \A r \in 1..Len(frame.heap) :
                ~C9_Answers(frame.heap[r], MarkerPath(git_out.body[k]))}

\* what the three early returns of get_commit_details test
C10_Fails(out) ==
    \/ out.returncode # 0
    \/ (out.header_parts = <<"">> /\ out.body = <<>>)
    \/ Len(out.header_parts) < 4

\* C9: a section whose attribution path is neither the path nor the old_path
\* of a FileChange of the commit changes nothing: get_commit_details returns
\* a record, and it is the record it returns for the same output without that
\* section.
C9_UnmatchedSectionChangesNothing ==
    (gcd_pc = "done" /\ ~C10_Fails(git_out)) =>
        /\ result # None
        /\ \A k \in C9_Unmatched :
                result = GetCommitDetails(
                             [git_out EXCEPT !.body = C9_Without(@, k)],
                             "h1", "org", "repo")

\* a record with a FileChange, of a commit with an unmatched section that has
\* lines after its marker
C9_Witness ==
    /\ Returned
    /\ result.file_changes # <<>>
    /\ \E k \in C9_Unmatched : C9_SectionEnd(git_out.body, k) > k + 1

\* whether analyze_diff has recorded something on fc: some counter is set
C15_HasStatistics(fc) ==
    \E field \in {"lines_added", "lines_deleted", "hunks_added",
                  "hunks_removed", "hunks_changed"} : fc[field] # 0

\* C15: the counters of a FileChange are assigned by analyze_diff at most
\* once, so no step of get_commit_details changes a FileChange on which the
\* statistics of an earlier section are recorded.
C15_CountersAssignedOnce ==
    [][\A r \in 1..Len(frame.heap) :
            C15_HasStatistics(frame.heap[r]) =>
                frame'.heap[r] = frame.heap[r]]_vars

\* the number of hashes in the parent field of a header: its maximal runs
\* of characters other than the space
C13_ParentCount(field) ==
    Cardinality({i \in 1..Len(field) :
                    /\ Char(field, i) # " "
                    /\ i = 1 \/ Char(field, i - 1) = " "})

\* C13: in every record get_commit_details returns, merge is true exactly
\* when the parent field of the header lists more than one hash.
C13_MergeIffManyParents ==
    Returned =>
        (result.merge <=> C13_ParentCount(git_out.header_parts[3]) > 1)

\* the record of a commit with two parents, which is a merge
C13_Witness ==
    /\ Returned
    /\ C13_ParentCount(git_out.header_parts[3]) = 2
    /\ result.merge

-----------------------------------------------------------------------------
(* Properties of analyze_diff on one matched section, checked under         *)
(* AnalyzeSpec.                                                             *)

\* the hunk markers of the section
C6_Markers(ls) == {j \in 1..Len(ls) : StartsWith(ls[j], "@@")}

\* the last line of the hunk whose marker is ls[j]
C6_HunkEnd(ls, j) ==
    LET later == {i \in C6_Markers(ls) : i > j}
    IN  IF later = {} THEN Len(ls)
        ELSE (CHOOSE i \in later : \A q \in later : i <= q) - 1

\* whether the hunk whose marker is ls[j] holds a line that begins with sign
C6_Has(ls, j, sign) ==
    \E i \in (j + 1)..C6_HunkEnd(ls, j) : StartsWith(ls[i], sign)

\* C6: after analyze_diff on a matched section, hunks_changed, hunks_added
\* and hunks_removed are the numbers of hunks of the section (a hunk runs
\* from a hunk marker to the next one or to the end of the section) that hold
\* both added and deleted lines, only added lines and only deleted lines.
C6_EveryHunkClassifiedOnce ==
    an_pc = "done" =>
        LET hunks == C6_Markers(section)
        IN  /\ file_change.hunks_changed =
                 Cardinality({j \in hunks : /\ C6_Has(section, j, "+")
                                            /\ C6_Has(section, j, "-")})
            /\ file_change.hunks_added =
                 Cardinality({j \in hunks : /\ C6_Has(section, j, "+")
                                            /\ ~C6_Has(section, j, "-")})
            /\ file_change.hunks_removed =
                 Cardinality({j \in hunks : /\ ~C6_Has(section, j, "+")
                                            /\ C6_Has(section, j, "-")})

\* the file-header lines of a section: its --- and +++ lines, which come
\* before its first hunk marker
C7_FileHeader(ls, j) ==
    /\ \A i \in C6_Markers(ls) : j < i
    /\ StartsWith(ls[j], "+++") \/ StartsWith(ls[j], "---")

\* the lines after the marker that begin with sign and are no file header
C7_ContentLines(ls, sign) ==
    {j \in 2..Len(ls) : StartsWith(ls[j], sign) /\ ~C7_FileHeader(ls, j)}

\* C7: after analyze_diff on a matched section, lines_added is the number of
\* the section's lines that begin with + and lines_deleted the number that
\* begin with -, its file-header lines +++ and --- being the only ones left
\* out, whatever follows the sign on a line.
C7_EveryContentLineCounts ==
    an_pc = "done" =>
        /\ file_change.lines_added = Cardinality(C7_ContentLines(section, "+"))
        /\ file_change.lines_deleted = Cardinality(C7_ContentLines(section, "-"))

-----------------------------------------------------------------------------
(* Properties of the pipeline, checked under Spec. *)

\* the hashes of repository r
C2_Hashes(r) ==
    {repo_paths[r].commit_hashes[k] :
        k \in 1..Len(repo_paths[r].commit_hashes)}

\* the task of hash h has run and was not dropped
C2_Succeeds(h) == h \in DOMAIN git_show /\ ~C10_Fails(git_show[h])

\* the positions in the output of the records of repository r
C2_Lines(r) == {i \in 1..Len(written) : written[i].json.repo = r}

\* C2: once the writer has terminated, the output holds, for every repository
\* whose tasks all succeed, as many records of that repository as it has
\* hashes, one for each hash, whatever the order in which the tasks completed
\* and whatever the batch size.
C2_OneRecordPerHash ==
    writer_pc = "done" =>
        \A r \in 1..Len(repo_paths) :
            (\A h \in C2_Hashes(r) : C2_Succeeds(h)) =>
                /\ Cardinality(C2_Lines(r)) = Cardinality(C2_Hashes(r))
                /\ {written[i].json.hash : i \in C2_Lines(r)} = C2_Hashes(r)

\* a repository of two hashes or more, all succeeding, a later hash of which
\* is written before an earlier one
C2_Witness ==
    /\ writer_pc = "done"
    /\ \E r \in 1..Len(repo_paths) :
        /\ Cardinality(C2_Hashes(r)) >= 2
        /\ \A h \in C2_Hashes(r) : C2_Succeeds(h)
        /\ \E i, j \in C2_Lines(r) :
                i < j /\ written[i].json.hash > written[j].json.hash

\* C5: when writer_process has terminated on DONE, the lines it has written
\* are the records it dequeued, each once and in the order of their dequeue.
C5_WrittenIsDequeued ==
    writer_pc = "done" => written = JsonLines(dequeued)

\* the writer has terminated after a flush of a full batch and with records
\* still in its buffer when DONE arrived
C5_Witness ==
    /\ writer_pc = "done"
    /\ batch_buffer # <<>>
    /\ Len(written) > Len(batch_buffer)

\* C8: with batch_size >= 1, the buffer of a waiting writer holds fewer than
\* batch_size records and at most batch_size - 1 dequeued records are
\* unwritten; lines are written only when the buffer reaches batch_size,
\* which writes the whole buffer and empties it, or when DONE arrives, which
\* writes all that is left.
C8_BufferBelowBatchSize ==
    /\ [](batch_size >= 1 =>
            /\ writer_pc = "get" => Len(batch_buffer) < batch_size
            /\ Len(dequeued) - Len(written) <= batch_size - 1)
    /\ [][(batch_size >= 1 /\ written' # written) =>
            \/ /\ Head(queue) # DONE
               /\ Len(batch_buffer) + 1 = batch_size
               /\ written' =
                    written \o JsonLines(Append(batch_buffer, Head(queue)))
               /\ batch_buffer' = <<>>
            \/ /\ Head(queue) = DONE
               /\ written' = written \o JsonLines(batch_buffer)
               /\ written' = JsonLines(dequeued)]_vars

\* the writer waits with batch_size - 1 records in its buffer, after a flush
C8_Witness ==
    /\ writer_pc = "get"
    /\ batch_size >= 2
    /\ Len(batch_buffer) = batch_size - 1
    /\ written # <<>>

\* whether a record of hash h is among the records or lines of rs
C10_Holds(rs, h) ==
    \E i \in 1..Len(rs) :
        \/ rs[i] # DONE /\ "hash" \in DOMAIN rs[i] /\ rs[i].hash = h
        \/ rs[i] # DONE /\ "json" \in DOMAIN rs[i] /\ rs[i].json.hash = h

\* some step of the run is possible: a result is awaited from the pool (all
\* that HandleResult requires), or another action of Next is enabled
C10_CanStep ==
    \/ \E h \in Scheduled : main_pc = "pool" /\ h \in pending
    \/ ENABLED (StartWriter \/ SkipRepository \/ OpenPool \/ SendDone
                   \/ Join \/ WriterRecord \/ WriterDone)

\* C10: a commit whose git show returns a non-zero status or no output, or
\* whose header has fewer than four fields, never has a record in the queue,
\* in the writer's hands or in the output; every other scheduled commit has
\* its record in the output once the writer has terminated; and the run never
\* stops before main has sent DONE and joined the writer.
C10_DroppedCommitsOnly ==
    /\ \A h \in DOMAIN git_show :
            C10_Fails(git_show[h]) =>
                /\ ~C10_Holds(queue, h)
                /\ ~C10_Holds(batch_buffer, h)
                /\ ~C10_Holds(dequeued, h)
                /\ ~C10_Holds(written, h)
    /\ writer_pc = "done" =>
            \A h \in Scheduled :
                /\ h \in DOMAIN git_show
                /\ ~C10_Fails(git_show[h]) => C10_Holds(written, h)
    /\ main_pc = "exit" \/ C10_CanStep

\* a finished run with a commit git failed on, a commit with a short header
\* and a commit whose record is in the output
C10_Witness ==
    /\ main_pc = "exit"
    /\ \E h \in DOMAIN git_show : git_show[h].returncode # 0
    /\ \E h \in DOMAIN git_show :
            git_show[h].returncode = 0 /\ Len(git_show[h].header_parts) = 3
    /\ \E h \in Scheduled : C10_Holds(written, h)

\* the records put on the queue so far, in the order of their put
C14_Enqueued == dequeued \o SelectSeq(queue, LAMBDA c : c # DONE)

\* C14: repositories are processed one after another: when a task of a
\* repository has run, every task of every earlier repository has run and
\* its record, if it has one, has been put on the queue; so the records of an
\* earlier repository precede those of a later one on the queue and in the
\* output.
C14_RepositoriesInTurn ==
    /\ \A r1, r2 \in 1..Len(repo_paths) :
            (r1 < r2 /\ C2_Hashes(r2) \cap DOMAIN git_show # {}) =>
                \A h \in C2_Hashes(r1) :
                    /\ h \in DOMAIN git_show
                    /\ ~C10_Fails(git_show[h]) => C10_Holds(C14_Enqueued, h)
    /\ \A i \in 1..(Len(C14_Enqueued) - 1) :
            C14_Enqueued[i].repo <= C14_Enqueued[i + 1].repo
    /\ \A i \in 1..(Len(written) - 1) :
            written[i].json.repo <= written[i + 1].json.repo

\* a finished run whose output holds two records of one repository, the
\* later hash first, and then a record of a later repository
C14_Witness ==
    /\ writer_pc = "done"
    /\ \E i, j, k \in 1..Len(written) :
        /\ i < j /\ j < k
        /\ written[i].json.repo = written[j].json.repo
        /\ written[i].json.hash > written[j].json.hash
        /\ written[j].json.repo < written[k].json.repo

\* how many times DONE has been put on the queue: those still on it and the
\* one the writer has taken
C18_Signals ==
    Len(SelectSeq(queue, LAMBDA c : c = DONE))
        + (IF writer_pc = "done" THEN 1 ELSE 0)

\* C18: DONE is put on the queue once, by main and after the loop over the
\* repositories; when it has been put, every repository has been processed,
\* every scheduled task has run and the record of every task that has one has
\* been put before it; no record stands behind DONE on the queue or arrives
\* when the writer has taken it; and the writer has not terminated while a
\* task is awaited.
C18_SignalOnceAfterAllTasks ==
    /\ C18_Signals = (IF main_pc \in {"join", "exit"} THEN 1 ELSE 0)
    /\ C18_Signals > 0 =>
            /\ repo_i > Len(repo_paths)
            /\ pending = {}
            /\ \A h \in Scheduled :
                    /\ h \in DOMAIN git_show
                    /\ ~C10_Fails(git_show[h]) => C10_Holds(C14_Enqueued, h)
    /\ \A i \in 1..Len(queue) : queue[i] = DONE => i = Len(queue)
    /\ writer_pc = "done" => (queue = <<>> /\ pending = {} /\ main_pc # "pool")

\* the run is over, it had two repositories with commits, and records of
\* both are in the output
C18_Witness ==
    /\ main_pc = "exit"
    /\ writer_pc = "done"
    /\ \E i, j \in 1..Len(written) :
            written[i].json.repo = 1 /\ written[j].json.repo = 2

\* the tasks that have run and returned a record
C20_Kept == {h \in DOMAIN git_show : ~C10_Fails(git_show[h])}

\* C20: the None a dropped commit returns is never put on the queue: while
\* main is before its queue.put(DONE) nothing on the queue is DONE, and the
\* records put so far are as many as the tasks that returned a record; so the
\* writer terminates only when main has sent its signal, and then no record
\* is left on the queue: every record that was put has been taken and is in
\* the output.
C20_NoResultTakenForSignal ==
    /\ main_pc \in {"start", "repos", "pool"} =>
            /\ \A i \in 1..Len(queue) : queue[i] # DONE
            /\ writer_pc # "done"
    /\ Len(C14_Enqueued) = Cardinality(C20_Kept)
    /\ writer_pc = "done" =>
            /\ SelectSeq(queue, LAMBDA c : c # DONE) = <<>>
            /\ Len(dequeued) = Cardinality(C20_Kept)
            /\ written = JsonLines(dequeued)

\* the writer has terminated, a commit of the first repository was dropped
\* and a record of the second repository, put after it, is in the output
C20_Witness ==
    /\ writer_pc = "done"
    /\ \E h \in C2_Hashes(1) : h \in DOMAIN git_show /\ C10_Fails(git_show[h])
    /\ \E i \in 1..Len(written) : written[i].json.repo = 2

-----------------------------------------------------------------------------
(* Termination of the run, checked under LiveSpec. *)

\* C21: when every scheduled task completes and no write fails, whatever the
\* repositories (invalid ones and ones without commits included), the run
\* reaches and keeps the state in which main has put DONE on the queue, the
\* writer has taken it and terminated, leaving the queue empty, and main's
\* writer.join() has returned; so the writer is never left waiting on an
\* empty queue for ever.
C21_RunTerminates ==
    <>[](/\ C18_Signals = 1
         /\ writer_pc = "done"
         /\ queue = <<>>
         /\ main_pc = "exit")

\* the run has ended after a path that is no repository was skipped, a commit
\* was dropped and a record was written
C21_Witness ==
    /\ main_pc = "exit"
    /\ \E r \in 1..Len(repo_paths) : ~repo_paths[r].is_git_repo
    /\ \E h \in DOMAIN git_show : C10_Fails(git_show[h])
    /\ written # <<>>

-----------------------------------------------------------------------------
(* Properties of the run with a failing writer, checked under FailSpec. *)

\* C19: a failure of the writer ends the run: when writer_process has failed
\* on a write, main starts no further task (no pool is opened, no task is
\* run) and puts no further record on the queue; and while the writer has not
\* failed the run is never stopped before main's exit, whatever git show
\* returns.
C19_WriterFailureStopsMain ==
    /\ [][writer_pc = "failed" =>
            /\ git_show' = git_show
            /\ pending' \subseteq pending
            /\ C14_Enqueued' = C14_Enqueued]_vars
    /\ [](writer_pc # "failed" => (main_pc = "exit" \/ C10_CanStep))

-----------------------------------------------------------------------------
(* Properties of the attribution of a section, checked under MarkerSpec. *)

\* the file a side of a marker names, NonePath if it denotes no file
C16_FileOf(side) ==
    IF side = "/dev/null" THEN NonePath ELSE SubSeq(side, 3, Len(side))

\* the attribution path of a marker: the file of its b side, else of its a
\* side, else none
C16_Attribution(a_side, b_side) ==
    IF C16_FileOf(b_side) # NonePath THEN C16_FileOf(b_side)
    ELSE C16_FileOf(a_side)

\* C16: the attribution path get_commit_details chooses for a marker is the
\* marker's b path, or its a path when the b side denotes no file, and the
\* added line of the section is counted on the FileChange of that path and
\* on no other; when neither side names a file the section is attributed to
\* nothing and its line is counted nowhere.
C16_AttributionPrefersB ==
    \A a_side \in ASides, b_side \in BSides :
        git_out.body = MarkerBody(a_side, b_side) =>
            /\ (gcd_pc = "pass2" /\ idx = Len(git_out.body)) =>
                    frame.current_file_path = C16_Attribution(a_side, b_side)
            /\ Returned =>
                    \A k \in 1..Len(result.file_changes) :
                        result.file_changes[k].lines_added =
                            IF result.file_changes[k].path =
                                    C16_Attribution(a_side, b_side)
                            THEN 1 ELSE 0

-----------------------------------------------------------------------------
(* Properties of parse_file_change, checked under ParseSpec. *)

\* the first pass has handed the descriptor line to parse_file_change
ParsePassed == gcd_pc = "pass2"

\* the status letter of a descriptor line
C11_Status(line) == Char(line, Len(DescriptorPrefix) + 1)

\* the line with the status letter M in place of its own
C11_WithM(line) ==
    DescriptorPrefix \o "M"
        \o SubSeq(line, Len(DescriptorPrefix) + 2, Len(line))

\* the change type the status letters stand for; Modify for any other letter
C11_Expected(status) ==
    CASE status = "A" -> "Add"
      [] status = "D" -> "Delete"
      [] status = "R" -> "Rename"
      [] status = "C" -> "Copy"
      [] status = "T" -> "Type"
      [] OTHER -> "Modify"

\* C11: a descriptor line that is well formed but for its status letter (it
\* parses with M in the letter's place) yields a FileChange, whose
\* change_type is Add, Delete, Modify, Rename, Copy or Type for the letters
\* A, D, M, R, C, T and Modify for any other letter.
C11_UnknownLetterIsModify ==
    ParsePassed =>
        LET line == git_out.body[1]
        IN  TruthyDict(ParseFileChange(C11_WithM(line))) =>
                /\ Len(frame.heap) = 1
                /\ frame.heap[1].change_type = C11_Expected(C11_Status(line))

\* the tab-separated path fields of a line the grammar accepts
C12_Fields(line) == Split(MatchFileChange(line).paths, "\t")

\* C12: a descriptor line the grammar accepts with two tab-separated path
\* fields yields a FileChange whose old_path is the first field and whose
\* path is the second, the two being different, with the change_type of its
\* status letter; one with a single path field yields a FileChange whose path
\* is that field and whose old_path is null.
C12_TwoPathsGiveOldAndNew ==
    ParsePassed =>
        LET line == git_out.body[1]
            fields == C12_Fields(line)
        IN  MatchFileChange(line).matched =>
                /\ Len(frame.heap) = 1
                /\ Len(fields) = 2 =>
                        /\ frame.heap[1].old_path = fields[1]
                        /\ frame.heap[1].path = fields[2]
                        /\ frame.heap[1].old_path # frame.heap[1].path
                        /\ frame.heap[1].change_type =
                                C11_Expected(C11_Status(line))
                /\ Len(fields) = 1 =>
                        /\ frame.heap[1].path = fields[1]
                        /\ frame.heap[1].old_path = NonePath

\* C17: every FileChange parse_file_change produces, whatever the path field
\* of the line (an empty field, one field, two, or more), has a path that is
\* neither null nor empty and an old_path that is null or differs from path.
C17_PathSetAndOldPathDiffers ==
    ParsePassed =>
        \A r \in 1..Len(frame.heap) :
            /\ frame.heap[r].path # NonePath
            /\ frame.heap[r].path # ""
            /\ \/ frame.heap[r].old_path = NonePath
               \/ frame.heap[r].old_path # frame.heap[r].path

=============================================================================
